---- MODULE Spec2Model ----
(***************************************************************************)
(* Model of the brightness controller of mac-cli (src/brightness.rs) and   *)
(* of the command layer that drives it (src/main.rs, handle_brightness     *)
(* and main).                                                              *)
(*                                                                         *)
(* Every foreign call the code makes (CGGetActiveDisplayList, dlopen,      *)
(* dlsym, dlclose, the bound getter and the bound setter) is appended to   *)
(* the log `calls` together with its arguments and the value the platform  *)
(* returned; that value is chosen nondeterministically.                    *)
(*                                                                         *)
(* f32 values are modelled as records: a finite number carries its value   *)
(* in units of 1/10000, the special values NaN, +inf and -inf carry a kind *)
(* only.  Comparisons follow IEEE-754: every comparison with NaN is false. *)
(***************************************************************************)
EXTENDS Integers, Sequences, FiniteSets, TLC

(* ---------------------------------------------------------------------- *)
(* Bounds of the model                                                     *)
(* ---------------------------------------------------------------------- *)

\* displays: [CGDirectDisplayID; 16] is modelled with this many slots
MaxDisplays == 2
\* platform status codes range over 0..MaxStatus
MaxStatus == 1
\* number of get/set calls a library client makes on one controller
MaxOps == 2

(* ---------------------------------------------------------------------- *)
(* f32                                                                     *)
(* ---------------------------------------------------------------------- *)

Num(n) == [k |-> "num", v |-> n]
NaN == [k |-> "nan", v |-> 0]
PosInf == [k |-> "inf", v |-> 1]
NegInf == [k |-> "inf", v |-> -1]

\* the float literals of the source, in units of 1/10000
F0 == Num(0)
F1 == Num(10000)
F10 == Num(100000)
F100 == Num(1000000)

\* a < b on f32
FLt(a, b) ==
  IF a.k = "nan" \/ b.k = "nan" THEN FALSE
  ELSE IF a.k = "inf" THEN a.v = -1 /\ ~(b.k = "inf" /\ b.v = -1)
  ELSE IF b.k = "inf" THEN b.v = 1
  ELSE a.v < b.v

\* a == b on f32
FEq(a, b) ==
  IF a.k = "nan" \/ b.k = "nan" THEN FALSE
  ELSE a.k = b.k /\ a.v = b.v

\* a <= b on f32
FLe(a, b) == FLt(a, b) \/ FEq(a, b)

\* a / 100.0 on f32 (finite inputs of the model are multiples of 0.01)
FDiv100(a) == IF a.k = "num" THEN Num(a.v \div 100) ELSE a

(* ---------------------------------------------------------------------- *)
(* Program constants and types                                             *)
(* ---------------------------------------------------------------------- *)

NULL == 0
RTLD_LAZY == 1
RTLD_DEFAULT == -2

framework_paths ==
  << "/System/Library/PrivateFrameworks/DisplayServices.framework/DisplayServices",
     "/System/Library/PrivateFrameworks/SkyLight.framework/SkyLight" >>

get_brightness_name == "DisplayServicesGetBrightness"
set_brightness_name == "DisplayServicesSetBrightness"

\* the handle dlopen returns for the i-th path when the load succeeds
HandleOf(i) == i

\* the address dlsym returns for a symbol that resolves in a scope
SymAddr(scope, name) ==
  IF name = get_brightness_name THEN 10 * (scope + 3) + 1 ELSE 10 * (scope + 3) + 2

Statuses == 0..MaxStatus

\* identifiers the platform may report for the first active display
DisplayIds == {42, 69}

\* Option<f32>
None == [some |-> FALSE, val |-> F0]
Some(x) == [some |-> TRUE, val |-> x]

\* Result<_, String>; code is the platform status formatted into the message
Pending == [tag |-> "Pending", msg |-> "", code |-> 0, val |-> F0]
Ok(x) == [tag |-> "Ok", msg |-> "", code |-> 0, val |-> x]
Err(m, c) == [tag |-> "Err", msg |-> m, code |-> c, val |-> F0]

\* struct BrightnessController; some = FALSE while no instance exists
NoController ==
  [some |-> FALSE, display_id |-> 0, handle |-> NULL,
   get_brightness_fn |-> NULL, set_brightness_fn |-> NULL]

\* one entry of the log of foreign calls: the function called (fn; "call" for
\* a call through a function pointer, p being the pointer), its string
\* argument n, its integer argument a, its f32 argument or out-parameter x and
\* the value it returned r
Call(fn, p, n, a, x, r) == [fn |-> fn, p |-> p, n |-> n, a |-> a, x |-> x, r |-> r]

(* ---------------------------------------------------------------------- *)
(* Inputs                                                                  *)
(* ---------------------------------------------------------------------- *)

\* percentages given on the command line (clap parses them with f32::from_str)
CliPercentages ==
  { Num(0), Num(50000), Num(99900), F10, Num(550000), F100, Num(1000100),
    Num(1500000), Num(-200000), NaN, PosInf, NegInf }

\* values a library client passes to set
SetInputs == { Num(-1), F0, Num(5500), F1, Num(10001), NaN, PosInf, NegInf }

\* values the platform getter writes to its out-parameter
GetterOutputs == { F0, Num(7300), Num(15000) }

(* ---------------------------------------------------------------------- *)
(* State                                                                   *)
(* ---------------------------------------------------------------------- *)

VARIABLES
  caller,         \* "main": the CLI (main.rs); "api": a client of the pub API
  percentage,     \* Commands::Brightness { percentage }
  pc,             \* position of the program
  display_count,  \* new: display_count
  displays,       \* new: displays
  path_idx,       \* new: index of the next framework path to load
  handle,         \* new: handle
  get_fn_ptr,     \* new: get_fn_ptr
  set_fn_ptr,     \* new: set_fn_ptr
  controller,     \* the BrightnessController instance
  dropped,        \* Drop::drop has run on the instance
  ops,            \* number of get/set calls made by the api client
  op,             \* the last method called on the controller: "get", "set" or ""
  brightness,     \* set: the parameter brightness of the last call
  result,         \* result of the last operation / of handle_brightness
  exit_code,      \* process exit status, -1 while running
  calls           \* log of foreign calls

vars ==
  << caller, percentage, pc, display_count, displays, path_idx, handle,
     get_fn_ptr, set_fn_ptr, controller, dropped, ops, op, brightness, result,
     exit_code, calls >>

Init ==
  /\ caller \in {"main", "api"}
  /\ percentage \in
       IF caller = "main" THEN {None} \cup {Some(x) : x \in CliPercentages}
       ELSE {None}
  /\ pc = "new"
  /\ display_count = 0
  /\ displays = [i \in 1..MaxDisplays |-> 0]
  /\ path_idx = 1
  /\ handle = NULL
  /\ get_fn_ptr = NULL
  /\ set_fn_ptr = NULL
  /\ controller = NoController
  /\ dropped = FALSE
  /\ ops = 0
  /\ op = ""
  /\ brightness = F0
  /\ result = Pending
  /\ exit_code = -1
  /\ calls = << >>

\* where control goes when BrightnessController::new or the handler returns
\* without a live controller
ReturnPc == IF caller = "main" THEN "return" ELSE "exit"

(* ---------------------------------------------------------------------- *)
(* BrightnessController::new                                               *)
(* ---------------------------------------------------------------------- *)

\* brightness.rs:36
EnumerationFailed(status) == status # 0

\* variant: the check for zero displays is missing
NoDisplaysUnchecked(count) == FALSE

\* brightness.rs:40
NoDisplays(count) == count = 0

\* brightness.rs:29-42: enumerate the active displays
NewEnumerate ==
  /\ pc = "new"
  /\ \E status \in Statuses, count \in 0..MaxDisplays, first \in DisplayIds :
       /\ calls' = Append(calls, Call("CGGetActiveDisplayList", NULL, "", 16, F0, status))
       /\ display_count' = count
       /\ displays' = [i \in 1..MaxDisplays |-> IF i <= count THEN first + (i - 1) ELSE 0]
       /\ IF EnumerationFailed(status)
            THEN /\ result' = Err("Failed to get active displays", 0)
                 /\ pc' = ReturnPc
            ELSE IF NoDisplays(count)
              THEN /\ result' = Err("No active displays found", 0)
                   /\ pc' = ReturnPc
              ELSE /\ result' = result
                   /\ pc' = "dlopen"
  /\ UNCHANGED << caller, percentage, path_idx, handle, get_fn_ptr, set_fn_ptr,
                  controller, dropped, ops, op, brightness, exit_code >>

\* variant: the loop has no break
LoopNeverBreaks(h) == FALSE

\* brightness.rs:53: the loop over framework_paths ends at the first handle
\* that is not null
LoopBreaks(h) == h # NULL

\* brightness.rs:49-56: one iteration of the loop over framework_paths
NewDlopen ==
  /\ pc = "dlopen"
  /\ \E h \in {NULL, HandleOf(path_idx)} :
       /\ calls' = Append(calls, Call("dlopen", NULL, framework_paths[path_idx], RTLD_LAZY, F0, h))
       /\ handle' = h
       /\ IF LoopBreaks(h) \/ path_idx = Len(framework_paths)
            THEN /\ pc' = "dlsym_get"
                 /\ path_idx' = path_idx
            ELSE /\ pc' = "dlopen"
                 /\ path_idx' = path_idx + 1
  /\ UNCHANGED << caller, percentage, display_count, displays, get_fn_ptr,
                  set_fn_ptr, controller, dropped, ops, op, brightness, result, exit_code >>

\* brightness.rs:58-62
search_handle == IF handle = NULL THEN RTLD_DEFAULT ELSE handle

\* brightness.rs:67
NewDlsymGet ==
  /\ pc = "dlsym_get"
  /\ \E p \in {NULL, SymAddr(search_handle, get_brightness_name)} :
       /\ calls' = Append(calls, Call("dlsym", NULL, get_brightness_name, search_handle, F0, p))
       /\ get_fn_ptr' = p
  /\ pc' = "dlsym_set"
  /\ UNCHANGED << caller, percentage, display_count, displays, path_idx, handle,
                  set_fn_ptr, controller, dropped, ops, op, brightness, result, exit_code >>

\* brightness.rs:68
NewDlsymSet ==
  /\ pc = "dlsym_set"
  /\ \E p \in {NULL, SymAddr(search_handle, set_brightness_name)} :
       /\ calls' = Append(calls, Call("dlsym", NULL, set_brightness_name, search_handle, F0, p))
       /\ set_fn_ptr' = p
  /\ pc' = "bind"
  /\ UNCHANGED << caller, percentage, display_count, displays, path_idx, handle,
                  get_fn_ptr, controller, dropped, ops, op, brightness, result, exit_code >>

\* variant: the construction fails only when both symbols are missing
SymbolsMissingBoth(g, s) == g = NULL /\ s = NULL

\* brightness.rs:70
SymbolsMissing(g, s) == g = NULL \/ s = NULL

\* variant: the handle is never released
OwnsHandleNever(h) == FALSE

\* brightness.rs:71 and brightness.rs:123: a handle is released iff not null
OwnsHandle(h) == h # NULL

\* brightness.rs:70-75: a symbol is missing; release the handle and fail
NewFail ==
  /\ pc = "bind"
  /\ SymbolsMissing(get_fn_ptr, set_fn_ptr)
  /\ IF OwnsHandle(handle)
       THEN \E status \in Statuses :
              calls' = Append(calls, Call("dlclose", NULL, "", handle, F0, status))
       ELSE calls' = calls
  /\ result' = Err("DisplayServices functions not available on this system.", 0)
  /\ pc' = ReturnPc
  /\ UNCHANGED << caller, percentage, display_count, displays, path_idx, handle,
                  get_fn_ptr, set_fn_ptr, controller, dropped, ops, op, brightness, exit_code >>

\* variant: the identifier is taken from the last slot of the buffer
BoundDisplayLastSlot == displays[MaxDisplays]

\* brightness.rs:83: display_id: displays[0]
BoundDisplay == displays[1]

\* brightness.rs:77-87: both symbols resolved; construct the controller
NewBind ==
  /\ pc = "bind"
  /\ ~SymbolsMissing(get_fn_ptr, set_fn_ptr)
  /\ controller' = [some |-> TRUE, display_id |-> BoundDisplay, handle |-> handle,
                    get_brightness_fn |-> get_fn_ptr, set_brightness_fn |-> set_fn_ptr]
  /\ pc' = IF caller = "main" THEN "match" ELSE "bound"
  /\ UNCHANGED << caller, percentage, display_count, displays, path_idx, handle,
                  get_fn_ptr, set_fn_ptr, dropped, ops, op, brightness, result, exit_code,
                  calls >>

(* ---------------------------------------------------------------------- *)
(* BrightnessController::get and BrightnessController::set                 *)
(* ---------------------------------------------------------------------- *)

\* variant: the value of the getter is clamped to at most 1.0
GetOutcomeClamped(status, b) ==
  IF status # 0 THEN Err("Failed to get brightness: error code", status)
  ELSE Ok(IF FLt(F1, b) THEN F1 ELSE b)

\* brightness.rs:96-101: the value get returns for the getter's status and the
\* value the getter wrote to the out-parameter
GetOutcome(status, b) ==
  IF status # 0 THEN Err("Failed to get brightness: error code", status)
  ELSE Ok(b)

\* variant: get resolves the getter symbol again before it calls it
getResolvingAgain ==
  \E status \in Statuses, out \in GetterOutputs :
    /\ calls' = calls \o
         << Call("dlsym", NULL, get_brightness_name,
                 IF controller.handle = NULL THEN RTLD_DEFAULT ELSE controller.handle,
                 F0, controller.get_brightness_fn),
            Call("call", controller.get_brightness_fn, "",
                 controller.display_id, out, status) >>
    /\ result' = GetOutcome(status, out)
    /\ op' = "get"
    /\ brightness' = brightness

\* brightness.rs:91-102
get ==
  \E status \in Statuses, out \in GetterOutputs :
    /\ calls' = Append(calls, Call("call", controller.get_brightness_fn, "",
                                   controller.display_id, out, status))
    /\ result' = GetOutcome(status, out)
    /\ op' = "get"
    /\ brightness' = brightness

\* variant: the range check has no lower bound
InRangeNoLower(b) == FLe(b, F1)

\* brightness.rs:105: (0.0..=1.0).contains(&brightness)
InRange(b) == FLe(F0, b) /\ FLe(b, F1)

\* variant: the status the setter returns is ignored
SetOutcomeIgnoresStatus(status) == Ok(F0)

\* brightness.rs:111-116: the value set returns for the setter's status
SetOutcome(status) ==
  IF status # 0 THEN Err("Failed to set brightness: error code", status)
  ELSE Ok(F0)

\* brightness.rs:104-117
set(b) ==
  /\ op' = "set"
  /\ brightness' = b
  /\ IF ~InRange(b)
       THEN /\ result' = Err("Brightness must be between 0.0 and 1.0", 0)
            /\ calls' = calls
       ELSE \E status \in Statuses :
              /\ calls' = Append(calls, Call("call", controller.set_brightness_fn, "",
                                             controller.display_id, b, status))
              /\ result' = SetOutcome(status)

\* brightness.rs:120-128: Drop for BrightnessController.  The CLI drops the
\* controller when handle_brightness returns; a library client may drop it at
\* any point after construction.
drop ==
  /\ pc \in {"drop", "bound"}
  /\ IF OwnsHandle(controller.handle)
       THEN \E status \in Statuses :
              calls' = Append(calls, Call("dlclose", NULL, "", controller.handle, F0, status))
       ELSE calls' = calls
  /\ dropped' = TRUE
  /\ pc' = ReturnPc
  /\ UNCHANGED << caller, percentage, display_count, displays, path_idx, handle,
                  get_fn_ptr, set_fn_ptr, controller, ops, op, brightness, result,
                  exit_code >>

(* ---------------------------------------------------------------------- *)
(* A client of the public API: any sequence of get and set, then drop      *)
(* ---------------------------------------------------------------------- *)

ApiGet ==
  /\ pc = "bound"
  /\ ops < MaxOps
  /\ get
  /\ ops' = ops + 1
  /\ UNCHANGED << caller, percentage, pc, display_count, displays, path_idx, handle,
                  get_fn_ptr, set_fn_ptr, controller, dropped, exit_code >>

ApiSet ==
  /\ pc = "bound"
  /\ ops < MaxOps
  /\ \E v \in SetInputs : set(v)
  /\ ops' = ops + 1
  /\ UNCHANGED << caller, percentage, pc, display_count, displays, path_idx, handle,
                  get_fn_ptr, set_fn_ptr, controller, dropped, exit_code >>

(* ---------------------------------------------------------------------- *)
(* main.rs: handle_brightness and main                                     *)
(* ---------------------------------------------------------------------- *)

\* main.rs:109
IsZeroPct(pct) == FEq(pct, F0)

\* variant: the lower bound of the percentage is not checked
OutsidePctNoLower(pct) == FLt(F100, pct)

\* variant: the lower bound of the percentage is exclusive
OutsidePctExclusive(pct) == FLe(pct, F10) \/ FLt(F100, pct)

\* main.rs:112
OutsidePct(pct) == FLt(pct, F10) \/ FLt(F100, pct)

\* main.rs:107-114, 118: the match on percentage and the validation of pct
HandleMatch ==
  /\ pc = "match"
  /\ IF percentage.some
       THEN IF IsZeroPct(percentage.val)
              THEN /\ result' = Err("Brightness cannot be 0", 0)
                   /\ pc' = "drop"
              ELSE IF OutsidePct(percentage.val)
                THEN /\ result' = Err("Brightness must be between 10 and 100", 0)
                     /\ pc' = "drop"
                ELSE /\ result' = result
                     /\ pc' = "cli_set"
       ELSE /\ result' = result
            /\ pc' = "cli_get"
  /\ UNCHANGED << caller, percentage, display_count, displays, path_idx, handle,
                  get_fn_ptr, set_fn_ptr, controller, dropped, ops, op, brightness,
                  exit_code, calls >>

\* main.rs:115-116, 124: controller.set(pct / 100.0)?  The `?` hands an Err
\* to main unchanged; main looks at nothing else of the result.
HandleSet ==
  /\ pc = "cli_set"
  /\ set(FDiv100(percentage.val))
  /\ pc' = "drop"
  /\ UNCHANGED << caller, percentage, display_count, displays, path_idx, handle,
                  get_fn_ptr, set_fn_ptr, controller, dropped, ops, exit_code >>

\* main.rs:119-120, 124: controller.get()?  On Ok the value is printed;
\* result.val stands for the printed brightness.
HandleGet ==
  /\ pc = "cli_get"
  /\ get
  /\ pc' = "drop"
  /\ UNCHANGED << caller, percentage, display_count, displays, path_idx, handle,
                  get_fn_ptr, set_fn_ptr, controller, dropped, ops, exit_code >>

\* main.rs:98-101 and the return from main
MainExit ==
  /\ pc = "return"
  /\ exit_code' = IF result.tag = "Err" THEN 1 ELSE 0
  /\ pc' = "exit"
  /\ UNCHANGED << caller, percentage, display_count, displays, path_idx, handle,
                  get_fn_ptr, set_fn_ptr, controller, dropped, ops, op, brightness, result,
                  calls >>

Next ==
  \/ NewEnumerate
  \/ NewDlopen
  \/ NewDlsymGet
  \/ NewDlsymSet
  \/ NewFail
  \/ NewBind
  \/ ApiGet
  \/ ApiSet
  \/ HandleMatch
  \/ HandleSet
  \/ HandleGet
  \/ drop
  \/ MainExit

Spec == Init /\ [][Next]_vars

(* ---------------------------------------------------------------------- *)
(* Vocabulary of the properties                                            *)
(* ---------------------------------------------------------------------- *)

\* the scopes dlsym is given: a loaded handle or the default scope
Scopes == {RTLD_DEFAULT} \cup {HandleOf(i) : i \in 1..Len(framework_paths)}
GetterAddrs == {SymAddr(sc, get_brightness_name) : sc \in Scopes}
SetterAddrs == {SymAddr(sc, set_brightness_name) : sc \in Scopes}

IsEnumeration(c) == c.fn = "CGGetActiveDisplayList"
IsLoad(c) == c.fn = "dlopen"
IsLookup(c) == c.fn = "dlsym"
IsRelease(c) == c.fn = "dlclose"
IsGetterCall(c) == c.fn = "call" /\ c.p \in GetterAddrs
IsSetterCall(c) == c.fn = "call" /\ c.p \in SetterAddrs
IsPointerCall(c) == c.fn = "call"

\* positions of the log whose call satisfies P
Where(P(_)) == {i \in 1..Len(calls) : P(calls[i])}
Count(P(_)) == Cardinality(Where(P))

\* the calls a step appends to the log
Appended == {i \in 1..Len(calls') : i > Len(calls)}
LogGrows == /\ Len(calls') >= Len(calls)
            /\ \A i \in 1..Len(calls) : calls'[i] = calls[i]

\* a step that is one call of BrightnessController::set / ::get
SetStep == \/ pc = "cli_set" /\ pc' = "drop"
           \/ pc = "bound" /\ pc' = "bound" /\ ops' = ops + 1 /\ op' = "set"
GetStep == \/ pc = "cli_get" /\ pc' = "drop"
           \/ pc = "bound" /\ pc' = "bound" /\ ops' = ops + 1 /\ op' = "get"

OutOfRangeErr == Err("Brightness must be between 0.0 and 1.0", 0)
SymbolsErr == Err("DisplayServices functions not available on this system.", 0)

\* the program has ended
Ended == pc = "exit"

(* ---------------------------------------------------------------------- *)
(* C1                                                                      *)
(* ---------------------------------------------------------------------- *)

\* C1: every call set(v) with v < 0.0 or v > 1.0 returns the out-of-range
\* error and makes no foreign call at all (the setter is invoked zero times).
C1_SetRejectsOutOfRange ==
  [][ (SetStep /\ (FLt(brightness', F0) \/ FLt(F1, brightness')))
        => /\ result' = OutOfRangeErr
           /\ calls' = calls ]_vars

\* set was called twice on a bound controller, the last time with a value
\* above 1.0, which was rejected; the setter was never invoked
C1_Witness ==
  /\ controller.some
  /\ op = "set"
  /\ ops = 2
  /\ FLt(F1, brightness)
  /\ result = OutOfRangeErr
  /\ Count(IsSetterCall) = 0

(* ---------------------------------------------------------------------- *)
(* C2                                                                      *)
(* ---------------------------------------------------------------------- *)

SuccessfulLoad(c) == IsLoad(c) /\ c.r # NULL
Releases(h) == {i \in Where(IsRelease) : calls[i].a = h}

\* C2: at most one load succeeds; a handle is released only after the load
\* that returned it, and never twice; when the program has ended, the handle
\* of a successful load has been released exactly once: by the constructor
\* when no controller was built, by the destructor otherwise; with no
\* successful load there is no release call.
C2_HandleReleasedExactlyOnce ==
  /\ Count(SuccessfulLoad) <= 1
  /\ \A j \in Where(IsRelease) :
       /\ \E i \in Where(SuccessfulLoad) : i < j /\ calls[i].r = calls[j].a
       /\ Cardinality(Releases(calls[j].a)) = 1
  /\ Count(SuccessfulLoad) = 0 => Count(IsRelease) = 0
  /\ \A i \in Where(SuccessfulLoad) :
       /\ ~controller.some /\ pc \notin {"dlopen", "dlsym_get", "dlsym_set", "bind"}
            => Cardinality(Releases(calls[i].r)) = 1
       /\ controller.some => (Cardinality(Releases(calls[i].r)) = 1 <=> dropped)
       /\ Ended => Cardinality(Releases(calls[i].r)) = 1

\* the second candidate loaded, the controller was built and later destroyed,
\* and the handle was released then
C2_Witness ==
  /\ Ended
  /\ controller.some /\ dropped
  /\ controller.handle = HandleOf(2)
  /\ Cardinality(Releases(HandleOf(2))) = 1

\* the same for the other release path: a load succeeded, a symbol did not
\* resolve, and the constructor released the handle
C2_WitnessFailedConstruction ==
  /\ Ended
  /\ ~controller.some
  /\ Count(SuccessfulLoad) = 1
  /\ Count(IsRelease) = 1

(* ---------------------------------------------------------------------- *)
(* C3                                                                      *)
(* ---------------------------------------------------------------------- *)

LoadsDone == pc \notin {"new", "dlopen"} \/ Count(IsLookup) > 0
ConstructionOver == pc \notin {"new", "dlopen", "dlsym_get", "dlsym_set", "bind"}

\* C3: the k-th load attempt is for the k-th candidate path; no load is
\* attempted after one that succeeded; every symbol lookup searches the handle
\* of the successful load, or the default scope when there is none, and then
\* every candidate was tried; and the construction succeeds whenever both
\* lookups resolve, also in the default scope.
C3_FirstLoadableCandidate ==
  /\ \A k \in 1..Count(IsLoad) :
       LET i == CHOOSE i \in Where(IsLoad) : Cardinality({j \in Where(IsLoad) : j <= i}) = k
       IN /\ k <= Len(framework_paths)
          /\ calls[i].n = framework_paths[k]
  /\ \A i \in Where(SuccessfulLoad) : \A j \in Where(IsLoad) : j <= i
  /\ \A j \in Where(IsLookup) :
       /\ \A i \in Where(IsLoad) : i < j
       /\ \A i \in Where(SuccessfulLoad) : calls[j].a = calls[i].r
       /\ Count(SuccessfulLoad) = 0 =>
            /\ calls[j].a = RTLD_DEFAULT
            /\ Count(IsLoad) = Len(framework_paths)
  /\ (ConstructionOver /\ Count(IsLookup) = 2 /\ \A j \in Where(IsLookup) : calls[j].r # NULL)
       => controller.some

\* every candidate failed to load, both symbols resolved in the default scope
\* and the controller was built
C3_Witness ==
  /\ controller.some
  /\ controller.handle = NULL
  /\ Count(IsLoad) = Len(framework_paths)
  /\ Count(SuccessfulLoad) = 0
  /\ \A j \in Where(IsLookup) : calls[j].a = RTLD_DEFAULT /\ calls[j].r # NULL

(* ---------------------------------------------------------------------- *)
(* C4                                                                      *)
(* ---------------------------------------------------------------------- *)

FailedLookup(c) == IsLookup(c) /\ c.r = NULL

\* C4: once a symbol lookup has returned null there is never a controller and
\* never a call through a function pointer, and when the construction is over
\* its result is the symbols-unavailable error.
C4_BothSymbolsOrNothing ==
  Count(FailedLookup) > 0 =>
    /\ ~controller.some
    /\ Count(IsPointerCall) = 0
    /\ ConstructionOver => result = SymbolsErr

\* the getter resolved, the setter did not, and the program ended with the
\* error and without a controller
C4_Witness ==
  /\ Ended
  /\ get_fn_ptr # NULL
  /\ set_fn_ptr = NULL
  /\ result = SymbolsErr
  /\ ~controller.some

(* ---------------------------------------------------------------------- *)
(* C5                                                                      *)
(* ---------------------------------------------------------------------- *)

\* C5: the enumeration is the first foreign call and is made at most once; if
\* it returned a non-zero status or reported zero displays, it stays the only
\* foreign call ever made (no load, no lookup), no controller exists and the
\* result is the corresponding error.
C5_EnumerationShortCircuits ==
  /\ Count(IsEnumeration) <= 1
  /\ Len(calls) > 0 => IsEnumeration(calls[1])
  /\ (Len(calls) > 0 /\ calls[1].r # 0) =>
       /\ Len(calls) = 1
       /\ ~controller.some
       /\ result = Err("Failed to get active displays", 0)
  /\ (Len(calls) > 0 /\ calls[1].r = 0 /\ display_count = 0) =>
       /\ Len(calls) = 1
       /\ ~controller.some
       /\ result = Err("No active displays found", 0)

\* the enumeration succeeded with zero displays and the program ended
C5_Witness ==
  /\ Ended
  /\ Len(calls) = 1
  /\ calls[1].r = 0
  /\ display_count = 0
  /\ result = Err("No active displays found", 0)

(* ---------------------------------------------------------------------- *)
(* C6                                                                      *)
(* ---------------------------------------------------------------------- *)

\* the CLI was given a percentage that is zero, below 10 or above 100
RejectedPercentage ==
  /\ caller = "main"
  /\ percentage.some
  /\ \/ FEq(percentage.val, F0)
     \/ FLt(percentage.val, F10)
     \/ FLt(F100, percentage.val)

ZeroErr == Err("Brightness cannot be 0", 0)
OutsideErr == Err("Brightness must be between 10 and 100", 0)

\* C6 as stated: on a percentage that is zero or outside 10..100 no display
\* enumeration, no library load and no symbol lookup takes place.
C6_Original ==
  RejectedPercentage =>
    /\ Count(IsEnumeration) = 0
    /\ Count(IsLoad) = 0
    /\ Count(IsLookup) = 0

\* C6 (amended): on a percentage that is zero, below 10 or above 100 the
\* validation of the calling layer runs only after the controller has been
\* constructed: whenever its error is the result, the enumeration, at least
\* one load attempt and both symbol lookups have been made and a controller
\* exists; a constructed controller always leads to that error (zero has its
\* own message); and no getter or setter call is ever made.
C6_RejectedAfterConstruction ==
  RejectedPercentage =>
    /\ Count(IsPointerCall) = 0
    /\ result \in {ZeroErr, OutsideErr} =>
         /\ controller.some
         /\ Count(IsEnumeration) = 1
         /\ Count(IsLoad) >= 1
         /\ Count(IsLookup) = 2
    /\ (controller.some /\ pc \in {"drop", "return", "exit"}) =>
         result = IF FEq(percentage.val, F0) THEN ZeroErr ELSE OutsideErr

\* the CLI was given 5, built the controller, rejected the percentage and
\* ended
C6_Witness ==
  /\ Ended
  /\ RejectedPercentage
  /\ percentage.val = Num(50000)
  /\ controller.some
  /\ result = OutsideErr
  /\ exit_code = 1

(* ---------------------------------------------------------------------- *)
(* C7                                                                      *)
(* ---------------------------------------------------------------------- *)

\* C7: every call set(v) with 0.0 <= v <= 1.0 makes exactly one foreign call:
\* the bound setter, with the bound display identifier and with v itself; it
\* returns Ok when the setter returned 0 and an error carrying the status
\* otherwise.
C7_SetInvokesSetterOnce ==
  [][ (SetStep /\ FLe(F0, brightness') /\ FLe(brightness', F1))
        => /\ LogGrows
           /\ Len(calls') = Len(calls) + 1
           /\ LET c == calls'[Len(calls')]
              IN /\ c.fn = "call"
                 /\ c.p = controller.set_brightness_fn
                 /\ c.p \in SetterAddrs
                 /\ c.a = controller.display_id
                 /\ c.x = brightness'
                 /\ c.r = 0 => result'.tag = "Ok"
                 /\ c.r # 0 => /\ result'.tag = "Err"
                               /\ result'.msg = "Failed to set brightness: error code"
                               /\ result'.code = c.r ]_vars

\* set(1.0) was called through the API, the setter returned a non-zero status
\* and set returned the error carrying it
C7_Witness ==
  /\ caller = "api"
  /\ op = "set"
  /\ brightness = F1
  /\ Count(IsSetterCall) = 1
  /\ calls[Len(calls)].x = F1
  /\ calls[Len(calls)].r # 0
  /\ result.tag = "Err"
  /\ result.code = calls[Len(calls)].r

(* ---------------------------------------------------------------------- *)
(* C8                                                                      *)
(* ---------------------------------------------------------------------- *)

\* C8: every call of get makes exactly one foreign call: the bound getter (not
\* the setter) with the bound display identifier; on status 0 get returns the
\* very value the getter wrote, on a status c # 0 it returns an error that
\* carries c.
C8_GetReturnsGetterValue ==
  [][ GetStep
        => /\ LogGrows
           /\ Len(calls') = Len(calls) + 1
           /\ LET c == calls'[Len(calls')]
              IN /\ c.fn = "call"
                 /\ c.p = controller.get_brightness_fn
                 /\ c.p \in GetterAddrs
                 /\ c.p \notin SetterAddrs
                 /\ c.a = controller.display_id
                 /\ c.r = 0 => result' = Ok(c.x)
                 /\ c.r # 0 => /\ result'.tag = "Err"
                               /\ result'.msg = "Failed to get brightness: error code"
                               /\ result'.code = c.r ]_vars

\* the getter returned status 0 and wrote 1.5; get returned 1.5
C8_Witness ==
  /\ caller = "api"
  /\ op = "get"
  /\ Len(calls) > 0
  /\ IsGetterCall(calls[Len(calls)])
  /\ calls[Len(calls)].r = 0
  /\ calls[Len(calls)].x = Num(15000)
  /\ result = Ok(Num(15000))

(* ---------------------------------------------------------------------- *)
(* C9                                                                      *)
(* ---------------------------------------------------------------------- *)

\* the CLI was given a percentage between 10 and 100 inclusive
AcceptedPercentage ==
  /\ caller = "main"
  /\ percentage.some
  /\ FLe(F10, percentage.val)
  /\ FLe(percentage.val, F100)

\* x = p / 100
IsHundredth(x, p) == x.k = "num" /\ p.k = "num" /\ x.v * 100 = p.v

\* what C9 says of a run of the subcommand that has ended
C9_Calls ==
  /\ ~percentage.some =>
       /\ Count(IsGetterCall) = 1
       /\ Count(IsSetterCall) = 0
  /\ AcceptedPercentage =>
       /\ Count(IsSetterCall) = 1
       /\ \A i \in Where(IsSetterCall) : IsHundredth(calls[i].x, percentage.val)
       /\ Count(IsGetterCall) = 0
  /\ RejectedPercentage =>
       /\ result.tag = "Err"
       /\ Count(IsSetterCall) = 0

\* C9 as stated: the subcommand makes exactly one getter call and no setter
\* call without an argument, exactly one setter call with p/100 and no getter
\* call with p in 10..100, and returns an error without a setter call when p
\* is 0, below 10 or above 100.
C9_Original == (caller = "main" /\ Ended) => C9_Calls

\* C9 (amended): the above holds of every run in which the construction of the
\* controller succeeded; when it failed, the subcommand returns the error of
\* the construction and makes no getter and no setter call.
C9_SubcommandCalls ==
  (caller = "main" /\ Ended) =>
    /\ controller.some => C9_Calls
    /\ ~controller.some =>
         /\ result.tag = "Err"
         /\ Count(IsPointerCall) = 0
         /\ exit_code = 1

\* the CLI was given 10, the controller was built and the setter was called
\* once with 0.1
C9_Witness ==
  /\ caller = "main"
  /\ Ended
  /\ percentage = Some(F10)
  /\ controller.some
  /\ Count(IsSetterCall) = 1
  /\ \A i \in Where(IsSetterCall) : calls[i].x = Num(1000)
  /\ Count(IsGetterCall) = 0

(* ---------------------------------------------------------------------- *)
(* C10                                                                     *)
(* ---------------------------------------------------------------------- *)

\* the state of the controller's life: Uninitialized, Bound or Closed
Lifecycle ==
  IF dropped THEN "Closed" ELSE IF controller.some THEN "Bound" ELSE "Uninitialized"

\* C10: the life of the controller only moves Uninitialized -> Bound (in the
\* constructor, once both symbols are resolved) and Bound -> Closed, never
\* back; enumeration, load and lookup calls are made only by the constructor,
\* before the binding; a getter or setter call is made only while the
\* controller is Bound and leaves it Bound; a release is made by the step that
\* closes a Bound controller or by a constructor that fails; nothing is called
\* once the controller is Closed.
C10_Lifecycle ==
  [][ /\ Lifecycle' # Lifecycle =>
           \/ Lifecycle = "Uninitialized" /\ Lifecycle' = "Bound" /\ pc = "bind"
           \/ Lifecycle = "Bound" /\ Lifecycle' = "Closed"
      /\ LogGrows
      /\ \A i \in Appended :
           LET c == calls'[i]
           IN /\ (IsEnumeration(c) \/ IsLoad(c) \/ IsLookup(c)) =>
                   /\ Lifecycle = "Uninitialized"
                   /\ pc \in {"new", "dlopen", "dlsym_get", "dlsym_set"}
                   /\ ~SetStep /\ ~GetStep
              /\ IsPointerCall(c) =>
                   /\ Lifecycle = "Bound" /\ Lifecycle' = "Bound"
                   /\ Count(IsRelease) = 0
              /\ IsRelease(c) =>
                   \/ Lifecycle = "Bound" /\ Lifecycle' = "Closed"
                   \/ /\ Lifecycle = "Uninitialized" /\ Lifecycle' = "Uninitialized"
                      /\ pc = "bind" /\ result' = SymbolsErr
      /\ (Lifecycle = "Uninitialized" /\ result'.tag = "Err") =>
           Lifecycle' = "Uninitialized" ]_vars

\* a controller was bound to a loaded library, used for a get and a set that
\* reached the platform, and closed
C10_Witness ==
  /\ Ended
  /\ Lifecycle = "Closed"
  /\ Count(IsGetterCall) = 1
  /\ Count(IsSetterCall) = 1
  /\ Count(IsRelease) = 1
  /\ IsRelease(calls[Len(calls)])

(* ---------------------------------------------------------------------- *)
(* C11                                                                     *)
(* ---------------------------------------------------------------------- *)

\* the identifiers the enumeration reported as active
ActiveDisplays == {displays[i] : i \in {j \in 1..MaxDisplays : j <= display_count}}

\* C11: in every state with a controller both of its function pointers are
\* not null and its display identifier is one of the identifiers the
\* enumeration of its construction reported within the count; and once the
\* controller exists no step (get, set, drop or any other) changes one of its
\* four fields, nor what the enumeration reported.
C11_BoundFieldsFixed ==
  [][ /\ controller'.some =>
           /\ controller'.get_brightness_fn # NULL
           /\ controller'.set_brightness_fn # NULL
           /\ controller'.display_id \in ActiveDisplays'
           /\ Count(IsEnumeration)' = 1
      /\ controller.some =>
           /\ controller' = controller
           /\ displays' = displays
           /\ display_count' = display_count ]_vars

\* one display was reported, the controller was bound to it and a get and a
\* set that reached the platform were made on it
C11_Witness ==
  /\ controller.some
  /\ display_count = 1
  /\ controller.display_id = displays[1]
  /\ controller.display_id \in DisplayIds
  /\ ops = 2
  /\ Count(IsGetterCall) = 1
  /\ Count(IsSetterCall) = 1
  /\ \A i \in Where(IsPointerCall) : calls[i].a = controller.display_id

(* ---------------------------------------------------------------------- *)
(* C12                                                                     *)
(* ---------------------------------------------------------------------- *)

EnumerationFailure(c) == IsEnumeration(c) /\ c.r # 0
LookupFailure(c) == IsLookup(c) /\ c.r = NULL
ReleaseFailure(c) == IsRelease(c) /\ c.r # 0
GetterFailure(c) == IsGetterCall(c) /\ c.r # 0
SetterFailure(c) == IsSetterCall(c) /\ c.r # 0

\* the error that names the failure of call c
ReasonOf(c) ==
  IF IsEnumeration(c) THEN Err("Failed to get active displays", 0)
  ELSE IF IsLookup(c) THEN SymbolsErr
  ELSE IF IsGetterCall(c) THEN Err("Failed to get brightness: error code", c.r)
  ELSE Err("Failed to set brightness: error code", c.r)

\* a run of the CLI has ended and its call number i failed: the error naming
\* that failure reached main and the process exited with a non-zero status
Surfaced(i) == result = ReasonOf(calls[i]) /\ exit_code > 0

\* no call is repeated by a run of the CLI
NotRetried ==
  /\ Count(IsEnumeration) <= 1
  /\ Count(IsLookup) <= 2
  /\ Count(IsPointerCall) <= 1
  /\ Count(IsRelease) <= 1

\* the part of C12 that does not concern the handle release: a failure of the
\* enumeration, of a symbol lookup, of the getter or of the setter reaches main
\* as the error naming it, the CLI exits with a non-zero status, and nothing is
\* retried.
C12_ExceptRelease ==
  (caller = "main" /\ Ended) =>
    /\ NotRetried
    /\ \A i \in 1..Len(calls) :
         (\/ EnumerationFailure(calls[i]) \/ LookupFailure(calls[i])
          \/ GetterFailure(calls[i]) \/ SetterFailure(calls[i])) => Surfaced(i)

\* C12: when a run of the CLI has ended, every platform call that reported a
\* failure has reached main as an error and the process has exited with a
\* non-zero status: the enumeration, a symbol lookup, the getter and the setter
\* with the error naming them, the handle release with some error; and no call
\* was retried.
C12_NoFailureSwallowed ==
  (caller = "main" /\ Ended) =>
    /\ C12_ExceptRelease
    /\ \A i \in 1..Len(calls) :
         ReleaseFailure(calls[i]) => result.tag = "Err" /\ exit_code > 0

\* a run in which the only failure is the one the handle release reported
C12_ReleaseFailureOnly ==
  /\ caller = "main"
  /\ Ended
  /\ \E i \in 1..Len(calls) : ReleaseFailure(calls[i])
  /\ \A i \in 1..Len(calls) :
       ~(\/ EnumerationFailure(calls[i]) \/ LookupFailure(calls[i])
         \/ GetterFailure(calls[i]) \/ SetterFailure(calls[i]))
  /\ exit_code = 0
  /\ result.tag = "Ok"

(* ---------------------------------------------------------------------- *)
(* C13                                                                     *)
(* ---------------------------------------------------------------------- *)

\* the percentage is not equal to 0, not below 10 and not above 100
PassesCliChecks(p) == ~FEq(p, F0) /\ ~FLt(p, F10) /\ ~FLt(F100, p)

\* the CLI has called set with the percentage it was given
CliCalledSet == caller = "main" /\ percentage.some /\ op = "set"

\* C13: whenever the CLI hands a percentage that passed both of its checks to
\* set, the value handed over lies in [0.0, 1.0]; a run of the CLI never ends
\* in the controller's out-of-range error.
C13_CliValueInRange ==
  /\ (CliCalledSet /\ PassesCliChecks(percentage.val)) =>
       FLe(F0, brightness) /\ FLe(brightness, F1)
  /\ caller = "main" => result # OutOfRangeErr

\* the same for every percentage that is a number or an infinity: it holds of
\* all of them, NaN being the one value that passes both checks and is out of
\* range
C13_ExceptNaN ==
  (caller = "main" /\ percentage.val.k # "nan") =>
    /\ (CliCalledSet /\ PassesCliChecks(percentage.val)) =>
         FLe(F0, brightness) /\ FLe(brightness, F1)
    /\ result # OutOfRangeErr

\* NaN passed both checks of the CLI and was rejected by the controller
C13_NaNReachesController ==
  /\ CliCalledSet
  /\ percentage.val = NaN
  /\ brightness = NaN
  /\ result = OutOfRangeErr
  /\ Count(IsSetterCall) = 0
====
